---- MODULE Spec2Model ----
(***************************************************************************)
(* hotline.mjs: the position / transfer engine of one hotline instance,    *)
(* its pointer, touch and wheel handlers and its programmatic drives.      *)
(*                                                                         *)
(* Geometry is along the movement axis and in whole pixels, so Math.round  *)
(* is exact on every coordinate of the model.  An item's on-screen         *)
(* coordinate is the shell's leading edge plus the margins, sizes and gaps *)
(* of the items before it plus its own margin.                             *)
(***************************************************************************)
EXTENDS Integers, Sequences, FiniteSets, TLC

(***************************************************************************)
(* Bounds of the model.                                                    *)
(***************************************************************************)
\* largest magnitude of a position a handler is allowed to write
MaxPos == 3
\* largest magnitude of the recycle-offset accumulator of a gesture
MaxAcc == 3
\* number of gesture-starts (moving closures) of one run
MaxGestures == 1
\* largest page coordinate of the pointer
MaxCoord == 2
\* largest magnitude of the step of a forward() or backward() drive
MaxStep == 12
\* largest magnitude of a position a drive is allowed to write
MaxDrive == 14
\* number of start() calls of one run that register listeners
MaxStarts == 2
\* largest magnitude of a position the drive of magnetize() is allowed to
\* write
MaxMagnet == 40
\* number of ticks of a run that counts its ticks
MaxTicks == 1100
\* largest magnitude of a position the tick writes in a run that counts its
\* ticks
MaxTravel == 112

(***************************************************************************)
(* JavaScript values: numbers, NaN, undefined and null.                    *)
(***************************************************************************)
Num(n) == [k |-> "num", v |-> n]

NaN == [k |-> "nan", v |-> 0]

Undefined == [k |-> "undefined", v |-> 0]

Null == [k |-> "null", v |-> 0]

IsNum(a) == a.k = "num"

\* ToBoolean: 0, NaN, undefined and null are falsy
Truthy(a) == a.k = "num" /\ a.v # 0

\* a || b
Or(a, b) == IF Truthy(a) THEN a ELSE b

\* ToNumber: null is 0, undefined is NaN
ToNumber(a) == IF a.k = "null" THEN Num(0) ELSE IF a.k = "num" THEN a ELSE NaN

\* a + b on numbers
Plus(a, b) ==
    IF IsNum(ToNumber(a)) /\ IsNum(ToNumber(b))
    THEN Num(ToNumber(a).v + ToNumber(b).v)
    ELSE NaN

\* a - b
Minus(a, b) ==
    IF IsNum(ToNumber(a)) /\ IsNum(ToNumber(b))
    THEN Num(ToNumber(a).v - ToNumber(b).v)
    ELSE NaN

\* parseFloat(element.style.margin...): "3px" is 3, an unset margin is NaN
ParseMargin(m) == IF IsNum(m) THEN m ELSE NaN

\* element.style.margin... = value + "px": "NaNpx" and "undefinedpx" are
\* invalid declarations, which the style object ignores
WriteMargin(m, element, value) ==
    IF IsNum(value) THEN [m EXCEPT ![element] = value] ELSE m

(***************************************************************************)
(* The shell and its items.                                                *)
(***************************************************************************)
\* this.#shell.offsetLeft / offsetTop: the leading edge of the shell
ShellEdge == 0

\* the strips the model is run on: order of the children, size of each along
\* the axis, computed trailing margin (the gap to the next item) and size of
\* the shell along the axis
Layouts ==
    { [order |-> <<"a", "b", "c">>,
       size |-> [i \in {"a", "b", "c"} |-> 1],
       gap |-> [i \in {"a", "b", "c"} |-> 1],
       width |-> 4],
      [order |-> <<"a", "b", "c">>,
       size |-> [i \in {"a", "b", "c"} |-> IF i = "c" THEN 2 ELSE 1],
       gap |-> [i \in {"a", "b", "c"} |-> IF i = "c" THEN 0 ELSE 1],
       width |-> 4],
      [order |-> <<"a", "b">>,
       size |-> [i \in {"a", "b"} |-> 2],
       gap |-> [i \in {"a", "b"} |-> 0],
       width |-> 2],
      [order |-> <<>>,
       size |-> [i \in {} |-> 0],
       gap |-> [i \in {} |-> 0],
       width |-> 4] }

VARIABLES
    order,      \* children of the shell, in document order
    size,       \* item -> width / height
    gap,        \* item -> computed margin-right / margin-bottom
    width,      \* getBoundingClientRect().width / height of the shell
    across,     \* extent of the shell and of an item on the other axis
    margin,     \* item -> style.marginLeft / marginTop (Null when unset)
    first,      \* this.#first: [element, position]
    status,     \* this.#status
    process,    \* this.#process: TRUE while the tick interval exists
    threw,      \* a handler raised a TypeError
    freezed,    \* this.#freezed
    moving,     \* this.#moving
    cfg,        \* public settings: alive, hover, wheel, movable, sticky,
                \* transfer, step, delta
    events,     \* this.events: name -> enabled
    attached,   \* listeners of start() attached to the shell
    closures,   \* "moving" closures attached to the document
    current,    \* id of this.#listeners.get("moving"), 0 when deleted
    nextId,     \* id of the next "moving" closure
    accOn,      \* the `transfer` accumulator listens to transfer events
    acc,        \* the buffer `position` of start()
    fwd,        \* the forward() call
    bwd,        \* the backward() call
    mag,        \* the magnetize() call
    observer,   \* this.#observer: TRUE while the MutationObserver exists
    generation, \* number of listener sets start() has registered
    timers,     \* number of tick intervals that are set
    tally,      \* ticks and recycles since construction
    conf,       \* the last configure() call and the field it wrote
    emitted,    \* events dispatched by the last handler
    pcall,      \* the last position() call of the last handler
    lastOp,     \* the last handler and the branch it took
    dragRef,    \* the last drag write: pointer coordinate, where it put the items
    cycle,      \* recycle notifications since construction
    observed    \* what the run records: "calls" (pcall.ret), "drag" (dragRef),
                \* "cycle" (cycle), "tally" (tally)

vars ==
    << order, size, gap, width, across, margin, first, status, process, threw, freezed,
       moving, cfg, events, attached, closures, current, nextId, accOn, acc, fwd,
       bwd, mag, observer, generation, timers, tally, conf, emitted, pcall, lastOp, dragRef,
       cycle, observed >>

Items == DOMAIN size

\* this.#shell.firstElementChild
FirstElementChild(ord) == IF Len(ord) = 0 THEN "null" ELSE ord[1]

\* parseFloat(element.style.margin...) || 0
MarginOf(m, element) == Or(ParseMargin(m[element]), Num(0)).v

\* getBoundingClientRect() of the k-th child: its leading coordinate
RECURSIVE RectStart(_, _, _)
RectStart(ord, m, k) ==
    IF k = 1
    THEN ShellEdge + MarginOf(m, ord[1])
    ELSE RectStart(ord, m, k - 1) + size[ord[k - 1]] + gap[ord[k - 1]]
         + MarginOf(m, ord[k])

\* index of an item in the strip
IndexOf(ord, element) == CHOOSE k \in 1..Len(ord) : ord[k] = element

\* on-screen leading coordinate of every item
Screen(ord, m) == [i \in Items |-> RectStart(ord, m, IndexOf(ord, i))]


(***************************************************************************)
(* Notifications.                                                          *)
(***************************************************************************)
\* new CustomEvent("hotline." + name, {detail})
Ev(name, element, from, to, offset) ==
    [name |-> name, element |-> element, from |-> from, to |-> to,
     offset |-> offset]

\* the names the handlers look up in this.events
EventNames ==
    { "ready", "started", "stopped", "configured", "move", "move.mouse",
      "move.touch", "move.freezed", "move.unfreezed", "moved.forward",
      "moved.backward", "offset", "transfer.beginning", "transfer.end",
      "observer.started", "observer.stopped", "position", "moving",
      "moving.freezed", "magnetized" }

\* the registry as constructed: only the transfer events are dispatched;
\* a name the Map does not hold is looked up as undefined
DefaultEvents ==
    [n \in EventNames |-> n \in {"transfer.beginning", "transfer.end"}]

\* a registry with every notification requested
AllEvents == [n \in EventNames |-> TRUE]

\* a registry with every notification switched off by the page
QuietEvents == [n \in EventNames |-> FALSE]

\* the registry as constructed with the "move" entry switched on by the page
MoveEvents == [DefaultEvents EXCEPT !["move"] = TRUE]

\* no call of position() in the handler
NoCall == [n |-> 0, caller |-> "none", ret |-> Undefined]

(***************************************************************************)
(* position(value)                                                         *)
(***************************************************************************)
\* const old = this.#first.position || undefined
OldPosition(f) == Or(f.position, Undefined)

ResolveFirstLast(f, ord) ==
    IF f.element = "undefined"
    THEN IF Len(ord) = 0 THEN "null" ELSE ord[Len(ord)]
    ELSE f.element

\* the element position() writes to: the cached one, else the first child
ResolveFirst(f, ord) ==
    IF f.element = "undefined" THEN FirstElementChild(ord) ELSE f.element

\* this.#first.element instanceof HTMLElement
IsElement(element) == element \notin {"undefined", "null"}

PositionDeltaNoOld(value, old) == value

\* return value - (old || 0)
PositionDelta(value, old) == Minus(value, Or(old, Num(0)))

\* the "position" notification
PositionEvent(ev, old, value) ==
    IF ev["position"]
    THEN << Ev("position", "-", old, value, Undefined) >>
    ELSE << >>

PositionFailZero(f, m, element) ==
    [first |-> [f EXCEPT !.element = element], margin |-> m, ret |-> Num(0),
     ev |-> << >>]

\* no first element: return null
PositionFail(f, m, element) ==
    [first |-> [f EXCEPT !.element = element], margin |-> m, ret |-> Null,
     ev |-> << >>]

\* position(value) on the cache f, the margins m and the strip ord
Position(f, m, ord, ev, value) ==
    LET old == OldPosition(f)
        element == ResolveFirst(f, ord)
    IN  IF IsElement(element)
        THEN [first |-> [element |-> element, position |-> value],
              margin |-> WriteMargin(m, element, value),
              ret |-> PositionDelta(value, old),
              ev |-> PositionEvent(ev, old, value)]
        ELSE PositionFail(f, m, element)

\* the record of a position() call: the n-th of its handler, what it returned
Call(n, caller, r) ==
    [n |-> n, caller |-> caller,
     ret |-> IF "calls" \in observed THEN r.ret ELSE Undefined]

(***************************************************************************)
(* move(step)                                                              *)
(***************************************************************************)
\* step || this.step
MoveStep(stepArg, c) == Or(stepArg, Num(c.step))

\* const coordinate = this.#first.position + (step || this.step)
MoveCoordinate(f, stepArg, c) == Plus(f.position, MoveStep(stepArg, c))

\* the "moving" notification
MovingEvent(ev, from, to) ==
    IF ev["moving"] THEN << Ev("moving", "-", from, to, Undefined) >> ELSE << >>

Move(f, m, ord, ev, c, stepArg) ==
    LET coordinate == MoveCoordinate(f, stepArg, c)
        r == Position(f, m, ord, ev, coordinate)
    IN  [r EXCEPT !.ev = r.ev \o MovingEvent(ev, f.position, coordinate)]

\* a write the bounds of the model allow
InRange(value, bound) == IsNum(value) => (value.v <= bound /\ -value.v <= bound)


(***************************************************************************)
(* forward() and backward(): the state of one call of each.                *)
(***************************************************************************)
\* if (step > 10) in `stopping`
StepThreshold == 10

\* no call yet
IdleOp ==
    [state |-> "idle", step |-> 0, drive |-> FALSE, timer |-> FALSE,
     listener |-> FALSE]

\* resolve() and reject() settle a pending promise and nothing else
Settle(state, outcome) == IF state = "pending" THEN outcome ELSE state

PassedAlways(op, sign) == TRUE

\* step > 10 in forward(), step < -10 in backward()
Passed(op, sign) == sign * op.step > StepThreshold

\* the body of `stopping` past the threshold: both timers cleared, the
\* listener removed, the promise resolved
Stopped(op) ==
    [op EXCEPT !.drive = FALSE, !.timer = FALSE, !.listener = FALSE,
               !.state = Settle(op.state, "resolved")]

\* `stopping` as a listener of a transfer notification
Stopping(op, sign) ==
    IF op.listener /\ Passed(op, sign) THEN Stopped(op) ELSE op

\* the "moved.forward" / "moved.backward" notification of `stopping`
StoppingEvent(op, sign, ev, name) ==
    IF op.listener /\ Passed(op, sign) /\ ev[name]
    THEN << Ev(name, "-", Undefined, Undefined, Undefined) >>
    ELSE << >>

(***************************************************************************)
(* The recycle of one tick and its notification.                           *)
(***************************************************************************)
\* this.#first = {}
EmptyFirst == [element |-> "undefined", position |-> Undefined]

\* this.#transfer: the system constant, never overwritten
SystemTransfer == TRUE

TransferAllowedAlways(c) == SystemTransfer

\* instance.transfer === true && instance.#transfer
TransferAllowed(c) == c.transfer = TRUE /\ SystemTransfer

\* the `transfer` listener of a gesture: position += event.detail.offset ?? 0
Accumulate(on, a, offset) == IF on THEN a + offset ELSE a

\* the recycle notifications since construction: the sum of their offsets
\* while no item was recycled twice, the items recycled to each end
NoCycle == [sum |-> 0, ends |-> {}, begs |-> {}, twice |-> FALSE]

Recorded(cy, name, element, offset) ==
    IF "cycle" \notin observed \/ cy.twice \/ element \in cy.ends \cup cy.begs
    THEN [sum |-> 0, ends |-> {}, begs |-> {}, twice |-> TRUE]
    ELSE IF name = "transfer.end"
         THEN [cy EXCEPT !.sum = @ + offset, !.ends = @ \cup {element}]
         ELSE [cy EXCEPT !.sum = @ + offset, !.begs = @ \cup {element}]

\* no drag write yet
NoRef == [on |-> FALSE, c |-> 0, screen |-> << >>, recycled |-> {}]

\* a recycle after the last drag write
RefRecycled(ref, element) ==
    IF ref.on THEN [ref EXCEPT !.recycled = @ \cup {element}] ELSE ref

\* dispatchEvent of "transfer.end" / "transfer.beginning" to the listeners
\* of the shell; w holds acc, fwd, bwd, cycle
Dispatch(w, ev, name, element, offset) ==
    IF ev[name]
    THEN [acc |-> Accumulate(w.accOn, w.acc, offset),
          fwd |-> IF name = "transfer.beginning" THEN Stopping(w.fwd, 1) ELSE w.fwd,
          bwd |-> IF name = "transfer.end" THEN Stopping(w.bwd, -1) ELSE w.bwd,
          cycle |-> Recorded(w.cycle, name, element, offset),
          emitted |->
              << Ev(name, element, Undefined, Undefined, Num(offset)) >>
              \o (IF name = "transfer.beginning"
                  THEN StoppingEvent(w.fwd, 1, ev, "moved.forward")
                  ELSE StoppingEvent(w.bwd, -1, ev, "moved.backward"))]
    ELSE [acc |-> w.acc, fwd |-> w.fwd, bwd |-> w.bwd, cycle |-> w.cycle,
          emitted |-> << >>]

\* the listeners' view of the state
World == [accOn |-> accOn, acc |-> acc, fwd |-> fwd, bwd |-> bwd, cycle |-> cycle]

ForwardExitAtEdge(end) == end <= ShellEdge

\* Math.round(first.end) < shell.offsetLeft
ForwardExit(end) == end < ShellEdge

\* Math.round(first.rectangle.x) > shell.offsetLeft
BackwardExit(start) == start > ShellEdge

AppendChildSecond(ord) ==
    IF Len(ord) < 3 THEN ord ELSE << ord[2], ord[1] >> \o SubSeq(ord, 3, Len(ord))

\* appendChild(first)
AppendChild(ord) == Tail(ord) \o << ord[1] >>

\* insertBefore(last, first)
InsertLastBeforeFirst(ord) ==
    IF Len(ord) < 2 THEN ord ELSE << ord[Len(ord)] >> \o SubSeq(ord, 1, Len(ord) - 1)

\* parseFloat(getComputedStyle(last).marginRight) || first.offset || 0
LastOffset(last, off) == Or(Num(gap[last]), Or(Num(off), Num(0))).v

PassiveAdvanceFrozen(c, frozen) == c.alive = TRUE

\* this.alive === true && this.#freezed === false
PassiveAdvance(c, frozen) == c.alive = TRUE /\ frozen = FALSE


(***************************************************************************)
(* The outcome of a handler: what it leaves of the strip, the cache, the   *)
(* listeners' state and what it dispatched.                                *)
(***************************************************************************)
Same ==
    [order |-> order, margin |-> margin, first |-> first, acc |-> acc,
     fwd |-> fwd, bwd |-> bwd, mag |-> mag, observer |-> observer,
     generation |-> generation, timers |-> timers, tally |-> tally, conf |-> conf, cycle |-> cycle,
     dragRef |-> dragRef, emitted |-> << >>, pcall |-> NoCall, op |-> "none"]

Apply(r) ==
    /\ order' = r.order
    /\ margin' = r.margin
    /\ first' = r.first
    /\ acc' = r.acc
    /\ fwd' = r.fwd
    /\ bwd' = r.bwd
    /\ mag' = r.mag
    /\ observer' = r.observer
    /\ generation' = r.generation
    /\ timers' = r.timers
    /\ tally' = r.tally
    /\ conf' = r.conf
    /\ cycle' = r.cycle
    /\ dragRef' = r.dragRef
    /\ emitted' = r.emitted
    /\ pcall' = r.pcall
    /\ lastOp' = r.op

EndOffsetNoGap(lead, off) == -size[lead]

\* offset: -(first.rectangle.width + first.offset)
EndOffset(lead, off) == -(size[lead] + off)

\* the first element with its separator went beyond the shell
TransferEnd(lead, off) ==
    LET offset == EndOffset(lead, off)
        d == Dispatch(World, events, "transfer.end", lead, offset)
    IN  [Same EXCEPT !.order = AppendChild(order),
                     !.margin = [margin EXCEPT ![lead] = Null],
                     !.first = EmptyFirst,
                     !.acc = d.acc, !.fwd = d.fwd, !.bwd = d.bwd,
                     !.cycle = d.cycle, !.emitted = d.emitted,
                     !.dragRef = RefRecycled(dragRef, lead),
                     !.op = "tick.end"]

\* the beginning border of the first element went beyond the shell
TransferBeginning(lead, off) ==
    LET last == order[Len(order)]
        lastOffset == LastOffset(last, off)
        offset == size[last] + lastOffset
        d == Dispatch(World, events, "transfer.beginning", last, offset)
    IN  [Same EXCEPT !.order = InsertLastBeforeFirst(order),
                     !.margin = [[margin EXCEPT ![last] = Num(-size[last] - lastOffset)]
                                     EXCEPT ![lead] = Null],
                     !.first = EmptyFirst,
                     !.acc = d.acc, !.fwd = d.fwd, !.bwd = d.bwd,
                     !.cycle = d.cycle, !.emitted = d.emitted,
                     !.dragRef = RefRecycled(dragRef, last),
                     !.op = "tick.beginning"]

\* the callback of setInterval in start(), on a shell with a first child
TickOutcome ==
    LET lead == order[1]
        p == MarginOf(margin, lead)
        off == gap[lead]
        start == ShellEdge + p
        end == start + size[lead] + off
        f == [element |-> lead, position |-> Num(p)]
    IN  IF ForwardExit(end)
        THEN IF TransferAllowed(cfg)
             THEN TransferEnd(lead, off)
             ELSE [Same EXCEPT !.first = f, !.op = "tick.blocked"]
        ELSE IF BackwardExit(start)
        THEN IF TransferAllowed(cfg)
             THEN TransferBeginning(lead, off)
             ELSE [Same EXCEPT !.first = f, !.op = "tick.blocked"]
        ELSE IF PassiveAdvance(cfg, freezed)
        THEN LET r == Move(f, margin, order, events, cfg, Undefined)
             IN  [Same EXCEPT !.first = r.first, !.margin = r.margin,
                              !.emitted = r.ev,
                              !.pcall = Call(1, "tick", r),
                              !.op = "tick.move"]
        ELSE [Same EXCEPT !.first = f, !.op = "tick.idle"]

\* what the handlers of the gestures own
gestureVars == << freezed, moving, closures, current, nextId, accOn >>

\* what only construction and start() write
setupVars == << size, gap, width, across, cfg, events, observed >>

\* the ticks and the recycles counted, in a run that counts them
Tallied(op) ==
    IF "tally" \in observed
    THEN [ticks |-> tally.ticks + 1,
          ends |-> tally.ends + (IF op = "tick.end" THEN 1 ELSE 0),
          begs |-> tally.begs + (IF op = "tick.beginning" THEN 1 ELSE 0)]
    ELSE tally

Tick ==
    /\ process
    /\ tally.ticks < MaxTicks
    /\ IF Len(order) = 0
       THEN /\ Apply([Same EXCEPT !.first = [first EXCEPT !.element = "null"],
                                  !.tally = Tallied("tick.throw"),
                                  !.op = "tick.throw"])
            /\ threw' = TRUE
       ELSE /\ TickOutcome.op = "tick.move"
                    => InRange(TickOutcome.first.position,
                               IF "tally" \in observed THEN MaxTravel ELSE MaxPos)
            /\ TickOutcome.acc <= MaxAcc /\ -TickOutcome.acc <= MaxAcc
            /\ Apply([TickOutcome EXCEPT !.tally = Tallied(TickOutcome.op)])
            /\ threw' = threw
    /\ UNCHANGED << status, process, attached, gestureVars, setupVars >>

(***************************************************************************)
(* Construction and start()                                                *)
(***************************************************************************)
\* the settings the caller writes before start()
Configs ==
    [alive : BOOLEAN, hover : BOOLEAN, wheel : {TRUE}, movable : {TRUE},
     sticky : {FALSE}, transfer : BOOLEAN, step : {1, -1}, delta : {Num(2)},
     magnetic : {"null"}, magnet : {1}, observe : {FALSE}, vertical : {FALSE}]

\* magnetize() has not been called
NoMagnet ==
    [state |-> "idle", zone |-> "none", target |-> "none", step |-> 0,
     offset |-> 0, drive |-> FALSE, timer |-> FALSE]

\* no listener of start() yet
NoListeners ==
    [hover |-> FALSE, wheel |-> FALSE, start |-> FALSE, end |-> FALSE,
     leave |-> FALSE]

InitOn(layouts, configs, registries, records) ==
    /\ \E l \in layouts :
        /\ order = l.order
        /\ size = l.size
        /\ gap = l.gap
        /\ width = l.width
        /\ across = IF "across" \in DOMAIN l
                    THEN l.across
                    ELSE [shell |-> 0, item |-> [i \in DOMAIN l.size |-> 0]]
        /\ margin = [i \in DOMAIN l.size |-> Null]
        /\ status = IF Len(l.order) > 1 THEN "ready" ELSE "null"
    /\ first = EmptyFirst
    /\ process = FALSE
    /\ threw = FALSE
    /\ freezed = FALSE
    /\ moving = "'false'"
    /\ cfg \in configs
    /\ events \in registries
    /\ attached = NoListeners
    /\ closures = << >>
    /\ current = 0
    /\ nextId = 1
    /\ accOn = FALSE
    /\ acc = 0
    /\ fwd = IdleOp
    /\ bwd = IdleOp
    /\ mag = NoMagnet
    /\ observer = FALSE
    /\ generation = 0
    /\ timers = 0
    /\ tally = [ticks |-> 0, ends |-> 0, begs |-> 0]
    /\ conf = [name |-> "none", value |-> Null, wrote |-> FALSE,
               stored |-> Undefined]
    /\ emitted = << >>
    /\ pcall = NoCall
    /\ lastOp = "init"
    /\ dragRef = NoRef
    /\ cycle = NoCycle
    /\ observed = records

Init == InitOn(Layouts, Configs, {DefaultEvents, AllEvents}, {"calls", "cycle"})

\* removeEventListener(..., this.#listeners.get("moving")) on the document
Detach(cl, id) == SelectSeq(cl, LAMBDA c : c.id # id)

\* the notification of a handler that carries no detail the model reads
Plain(ev, name) ==
    IF ev[name] THEN << Ev(name, "-", Undefined, Undefined, Undefined) >> ELSE << >>

\* the notifications of the observer part of start()
ObserverEvents(c, ev, obs) ==
    IF c.observe
    THEN IF obs THEN << >> ELSE Plain(ev, "observer.started")
    ELSE IF obs THEN Plain(ev, "observer.stopped") ELSE << >>

\* the body of start() with no process: a new timer, a new set of listeners
\* with a new buffer, the status and the observer; before holds what the
\* caller dispatched first
Launch(before, op, cleared) ==
    /\ process' = TRUE
    /\ status' = "started"
    /\ generation' = generation + 1
    /\ timers' = timers - cleared + 1
    /\ attached' =
        [hover |-> cfg.hover, wheel |-> cfg.wheel, start |-> cfg.movable,
         end |-> cfg.movable, leave |-> cfg.movable]
    /\ acc' = IF accOn THEN acc ELSE 0
    /\ IF cfg.movable
       THEN UNCHANGED << moving, closures, current >>
       ELSE /\ moving' = "false"
            /\ closures' = Detach(closures, current)
            /\ current' = 0
    /\ observer' = cfg.observe
    /\ emitted' = before \o Plain(events, "started")
                         \o ObserverEvents(cfg, events, observer)
    /\ pcall' = NoCall
    /\ lastOp' = op
    /\ UNCHANGED << order, margin, first, threw, freezed, nextId, accOn, fwd, bwd,
                    mag, tally, conf, dragRef, cycle, setupVars >>

\* clearInterval(this.#process): the intervals it clears
Cleared == IF process THEN 1 ELSE 0

ProcessNullAlways == TRUE

\* this.#process === null
ProcessNull == process = FALSE

\* start(): nothing when a process exists
Start ==
    /\ ProcessNull
    /\ generation < MaxStarts
    /\ Launch(<< >>, "start", 0)

\* stop(): the timer is cleared and the status written
Stop ==
    /\ process' = FALSE
    /\ status' = "stopped"
    /\ Apply([Same EXCEPT !.timers = timers - Cleared,
                          !.emitted = Plain(events, "stopped"), !.op = "stop"])
    /\ UNCHANGED << threw, attached, gestureVars, setupVars >>

\* restart(): stop() and then start()
Restart ==
    /\ generation < MaxStarts
    /\ Launch(Plain(events, "stopped"), "restart", Cleared)

\* the callback of the MutationObserver on an attribute change of the shell:
\* this is the observer, which has no configure() and no restart()
Mutation ==
    /\ observer
    /\ Apply([Same EXCEPT !.op = "observer.throw"])
    /\ UNCHANGED << status, process, threw, attached, gestureVars, setupVars >>

(***************************************************************************)
(* configure(attribute). A string is the sequence of its characters.       *)
(***************************************************************************)
\* a string value
Str(chars) == [k |-> "str", v |-> 0, s |-> chars]

\* a boolean value
Bool(b) == [k |-> "bool", v |-> IF b THEN 1 ELSE 0]

\* a symbol of this.#magnetism
Zone(name) == [k |-> "symbol", v |-> 0, s |-> name]

\* parseFloat(string) on strings without a decimal point, an exponent or
\* leading white space: an optional sign and the longest prefix of digits
ParseFloat(chars) ==
    LET digit(c) ==
            CASE c = "0" -> 0 [] c = "1" -> 1 [] c = "2" -> 2 [] c = "3" -> 3
              [] c = "4" -> 4 [] c = "5" -> 5 [] c = "6" -> 6 [] c = "7" -> 7
              [] c = "8" -> 8 [] c = "9" -> 9
        digits == {"0", "1", "2", "3", "4", "5", "6", "7", "8", "9"}
        RECURSIVE leading(_)
        leading(str) ==
            IF str # << >> /\ Head(str) \in digits THEN 1 + leading(Tail(str)) ELSE 0
        RECURSIVE decimal(_)
        decimal(str) ==
            IF str = << >>
            THEN 0
            ELSE 10 * decimal(SubSeq(str, 1, Len(str) - 1)) + digit(str[Len(str)])
        signed == chars # << >> /\ Head(chars) \in {"-", "+"}
        body == IF signed THEN Tail(chars) ELSE chars
        magnitude == decimal(SubSeq(body, 1, leading(body)))
    IN  IF leading(body) = 0
        THEN NaN
        ELSE IF signed /\ Head(chars) = "-" THEN Num(-magnitude) ELSE Num(magnitude)

\* the strings that mean true, and those that mean false
Yes == { <<"t", "r", "u", "e">>, <<"o", "n">>, <<"y", "e", "s">> }

No == { <<"f", "a", "l", "s", "e">>, <<"o", "f", "f">>, <<"n", "o">> }

\* what configure() stores for a string that names no zone
Coerce(chars) ==
    IF chars \in Yes
    THEN Bool(TRUE)
    ELSE IF chars \in No
    THEN Bool(FALSE)
    ELSE Or(ParseFloat(chars), Str(chars))

\* the keys of this.#magnetism
Magnetism ==
    { <<"b", "e", "g", "i", "n", "n", "i", "n", "g">>, <<"c", "e", "n", "t", "e", "r">>,
      <<"e", "n", "d">> }

IgnoredNothing == {}

\* this.#ignored
Ignored == {"events"}

\* the names an attribute data-hotline-<name> can carry: the options of the
\* engine and the registry
OptionNames ==
    { "interval", "alive", "step", "vertical", "movable", "wheel", "delta", "button",
      "hover", "sticky", "magnetic", "magnet", "transfer", "observe", "events" }

\* what getAttribute() returns: the strings of the attribute, or null when
\* the attribute is gone
AttributeValues ==
    {Str(c) : c \in Yes \cup No \cup Magnetism
                    \cup { <<"5">>, <<"0">>, <<"-", "3">>, <<"1", "2">>, <<"5", "p", "x">>,
                           <<"a", "b", "c">>, << >> }}
        \cup {Null}

\* the outcome of configure("data-hotline-" + name) with the attribute at value
Configured(ev, name, value) ==
    IF name \in Ignored
    THEN [conf |-> [name |-> name, value |-> value, wrote |-> FALSE,
                    stored |-> Undefined],
          emitted |-> << >>]
    ELSE IF name = "magnetic" /\ value.k = "str" /\ value.s \in Magnetism
    THEN [conf |-> [name |-> name, value |-> value, wrote |-> TRUE,
                    stored |-> Zone(value.s)],
          emitted |-> << >>]
    ELSE IF value.k = "str"
    THEN [conf |-> [name |-> name, value |-> value, wrote |-> TRUE,
                    stored |-> Coerce(value.s)],
          emitted |-> IF ev["configured"]
                      THEN << Ev("configured", name, Undefined, Coerce(value.s),
                                 Undefined) >>
                      ELSE << >>]
    ELSE [conf |-> [name |-> name, value |-> value, wrote |-> FALSE,
                    stored |-> Undefined],
          emitted |-> << >>]

\* configure(attribute): conf holds the field the call wrote; the settings
\* of cfg are the ones the caller wrote itself
Configure(name, value) ==
    /\ LET r == Configured(events, name, value)
       IN  Apply([Same EXCEPT !.conf = r.conf, !.emitted = r.emitted,
                              !.op = "configure"])
    /\ UNCHANGED << status, process, threw, attached, gestureVars, setupVars >>

(***************************************************************************)
(* Hover, gesture, drag and wheel handlers of start().                     *)
(***************************************************************************)
\* pageX / pageY of a pointer or touch event
Coords == 0..MaxCoord

\* what n listeners of one kind dispatch when each dispatches seq
RECURSIVE Times(_, _)
Times(seq, n) == IF n <= 0 THEN << >> ELSE seq \o Times(seq, n - 1)

\* the "hover" listeners, one of every start(): mouseover on the shell
HoverEnter ==
    /\ attached.hover
    /\ freezed' = TRUE
    /\ Apply([Same EXCEPT !.emitted = Times(Plain(events, "moving.freezed"),
                                            generation),
                          !.op = "hover"])
    /\ UNCHANGED << status, process, threw, attached, moving, closures, current,
                    nextId, accOn, setupVars >>

\* the "move.leave" listeners, one of every start(): mouseleave on the shell;
\* each removes the closure this.#listeners holds and its own buffer listener
HoverLeave ==
    /\ attached.leave
    /\ IF cfg.sticky = FALSE
       THEN /\ moving' = "false"
            /\ closures' = Detach(closures, current)
            /\ current' = 0
            /\ accOn' = FALSE
       ELSE UNCHANGED << moving, closures, current, accOn >>
    /\ freezed' = FALSE
    /\ Apply([Same EXCEPT !.acc = 0,
                          !.emitted = Times(Plain(events, "move.unfreezed"),
                                            generation),
                          !.dragRef = IF cfg.sticky = FALSE THEN NoRef ELSE dragRef,
                          !.op = "leave"])
    /\ UNCHANGED << status, process, threw, attached, nextId, setupVars >>

\* mouseleave on the shell as the browser delivers it: the "move.leave"
\* listeners when start() took the movable branch, no listener otherwise
MouseLeave ==
    \/ HoverLeave
    \/ /\ attached.leave = FALSE
       /\ status = "started"
       /\ Apply([Same EXCEPT !.op = "mouseleave"])
       /\ UNCHANGED << status, process, threw, attached, gestureVars, setupVars >>

\* the margin the lead item has on the page when a gesture starts, recorded
\* under the observation of drags
LeadMargin ==
    IF "drag" \in observed /\ order # << >> THEN MarginOf(margin, order[1]) ELSE 0

\* the "move.start" listeners, one of every start(): mousedown with the
\* configured button, or touchstart, at page coordinate x; each attaches a
\* closure of its own and this.#listeners keeps the last one
GestureStart(x) ==
    /\ attached.start
    /\ nextId <= MaxGestures
    /\ freezed' = TRUE
    /\ accOn' = TRUE
    /\ closures' = closures \o [k \in 1..generation |->
                                    [id |-> nextId + k - 1, x |-> x,
                                     initial |-> first.position,
                                     lead |-> LeadMargin]]
    /\ current' = nextId + generation - 1
    /\ nextId' = nextId + generation
    /\ Apply([Same EXCEPT !.emitted = Times(Plain(events, "moving.freezed"),
                                            generation),
                          !.dragRef = NoRef,
                          !.op = "gesture.start"])
    /\ UNCHANGED << status, process, threw, attached, moving, setupVars >>

\* coordinate - (x + position - initial)
DragTarget(c, closure, a) == Minus(Num(c), Minus(Plus(Num(closure.x), Num(a)), closure.initial))

\* the "move.mouse" / "move.touch" notification
DragEvent(ev, type, closure, f) ==
    LET name == IF type = "mousemove" THEN "move.mouse" ELSE "move.touch"
    IN  IF ev[name]
        THEN << Ev(name, "-", closure.initial, f.position, Undefined) >>
        ELSE << >>

\* the "moving" closures of the document, called in the order they were
\* attached; r is the outcome so far
RECURSIVE Drag(_, _, _, _)
Drag(cl, type, c, r) ==
    IF cl = << >>
    THEN r
    ELSE LET closure == Head(cl)
             value == DragTarget(c, closure, acc)
             p == Position(r.first, r.margin, order, events, value)
         IN  Drag(Tail(cl), type, c,
                  [r EXCEPT !.first = p.first, !.margin = p.margin,
                            !.emitted = r.emitted \o p.ev
                                        \o DragEvent(events, type, closure, p.first),
                            !.pcall = Call(r.pcall.n + 1, "drag", p)])

\* every write of the closures is one the bounds allow
DragInRange(c) ==
    \A k \in 1..Len(closures) : InRange(DragTarget(c, closures[k], acc), MaxPos)

\* mousemove / touchmove on the document at page coordinate c
DragMove(type, c) ==
    /\ closures # << >>
    /\ IF status = "started"
       THEN /\ DragInRange(c)
            /\ moving' = "true"
            /\ LET r == Drag(closures, type, c, Same)
               IN  Apply([r EXCEPT !.dragRef = IF "drag" \in observed
                                                THEN [on |-> TRUE, c |-> c,
                                                      screen |-> Screen(order, r.margin),
                                                      recycled |-> {}]
                                                ELSE NoRef,
                                   !.op = "drag"])
       ELSE /\ moving' = moving
            /\ Apply([Same EXCEPT !.op = "drag.stopped"])
    /\ UNCHANGED << status, process, threw, attached, freezed, closures, current,
                    nextId, accOn, setupVars >>

\* instance.hover !== false || !instance.#shell.contains(end.target): the
\* target of an event the shell hears is the shell or inside it
Unfreezes(c) == c.hover # FALSE \/ FALSE

\* the "move.end" listeners, one of every start(): mouseup / touchend on the
\* shell; each removes the closure this.#listeners holds and its own buffer
\* listener; magnetic is null in the settings of Configs
GestureEnd ==
    /\ attached.end
    /\ moving' = "false"
    /\ closures' = Detach(closures, current)
    /\ current' = 0
    /\ accOn' = FALSE
    /\ freezed' = IF Unfreezes(cfg) THEN FALSE ELSE freezed
    /\ Apply([Same EXCEPT !.acc = 0,
                          !.emitted = IF Unfreezes(cfg)
                                      THEN Times(Plain(events, "move.unfreezed"),
                                                 generation)
                                      ELSE << >>,
                          !.dragRef = NoRef,
                          !.op = "gesture.end"])
    /\ UNCHANGED << status, process, threw, attached, nextId, setupVars >>

\* event.wheelDelta of a wheel event
WheelDeltas == {-3, 3}

\* delta === null ? wheelDelta : wheelDelta > 0 ? delta : -delta
WheelStep(c, wheelDelta) ==
    IF c.delta = Null
    THEN Num(wheelDelta)
    ELSE IF wheelDelta > 0 THEN c.delta ELSE Minus(Num(0), c.delta)

\* the "wheel" listeners of the shell, one of every start(), called in the
\* order they were attached; k are still to run and r is the outcome so far
RECURSIVE Wheels(_, _, _)
Wheels(k, wheelDelta, r) ==
    IF k = 0
    THEN r
    ELSE LET value == Plus(Num(MarginOf(r.margin, order[1])),
                           WheelStep(cfg, wheelDelta))
             p == Position(r.first, r.margin, order, events, value)
         IN  Wheels(k - 1, wheelDelta,
                    [r EXCEPT !.first = p.first, !.margin = p.margin,
                              !.emitted = r.emitted \o p.ev,
                              !.pcall = Call(r.pcall.n + 1, "wheel", p)])

\* a wheel event on the shell
Wheel(wheelDelta) ==
    /\ attached.wheel
    /\ IF status # "started"
       THEN /\ Apply([Same EXCEPT !.op = "wheel.stopped"])
            /\ threw' = threw
       ELSE IF Len(order) = 0
       THEN /\ Apply([Same EXCEPT !.op = "wheel.throw"])
            /\ threw' = TRUE
       ELSE LET r == Wheels(generation, wheelDelta, Same)
            IN  /\ InRange(r.first.position, MaxPos)
                /\ Apply([r EXCEPT !.dragRef = NoRef, !.op = "wheel"])
                /\ threw' = threw
    /\ UNCHANGED << status, process, attached, gestureVars, setupVars >>

\* the values a caller of the public position() passes
Values == (0 - 1)..2

\* position(value) called by the page
CallPosition(value) ==
    /\ LET p == Position(first, margin, order, events, Num(value))
       IN  Apply([Same EXCEPT !.first = p.first, !.margin = p.margin,
                              !.emitted = p.ev,
                              !.pcall = Call(1, "page", p),
                              !.dragRef = NoRef,
                              !.op = "position"])
    /\ UNCHANGED << status, process, threw, attached, gestureVars, setupVars >>

(***************************************************************************)
(* forward() and backward()                                                *)
(***************************************************************************)
\* Math.abs(this.step) || 1, signed by the direction of the drive
InitialStep(c, sign) ==
    sign * Or(Num(IF c.step < 0 THEN -c.step ELSE c.step), Num(1)).v

\* forward() / backward(): the drive interval, the `stopping` listener and
\* the timeout are created, the promise is pending
Called(c, sign) ==
    [state |-> "pending", step |-> InitialStep(c, sign), drive |-> TRUE,
     timer |-> TRUE, listener |-> TRUE]

\* ++step / --step of the drive interval
Driven(op, sign) == [op EXCEPT !.step = @ + sign]

\* the callback of the timeout: clearTimeout(moving); reject()
TimedOut(op) ==
    [op EXCEPT !.drive = FALSE, !.timer = FALSE,
               !.state = Settle(op.state, "rejected")]

\* the outcome of one callback of a drive interval: this.move(step)
DriveOutcome(op, caller) ==
    LET r == Move(first, margin, order, events, cfg, Num(op.step))
    IN  [Same EXCEPT !.first = r.first, !.margin = r.margin, !.emitted = r.ev,
                     !.pcall = Call(1, caller, r), !.dragRef = NoRef,
                     !.op = caller]

Forward ==
    /\ fwd.state = "idle"
    /\ Apply([Same EXCEPT !.fwd = Called(cfg, 1), !.op = "forward.call"])
    /\ UNCHANGED << status, process, threw, attached, gestureVars, setupVars >>

ForwardDrive ==
    /\ fwd.drive
    /\ fwd.step < MaxStep
    /\ LET op == Driven(fwd, 1)
           r == DriveOutcome(op, "forward")
       IN  /\ InRange(r.first.position, MaxDrive)
           /\ Apply([r EXCEPT !.fwd = op])
    /\ UNCHANGED << status, process, threw, attached, gestureVars, setupVars >>

ForwardTimeout ==
    /\ fwd.timer
    /\ Apply([Same EXCEPT !.fwd = TimedOut(fwd), !.op = "forward.timeout"])
    /\ UNCHANGED << status, process, threw, attached, gestureVars, setupVars >>

Backward ==
    /\ bwd.state = "idle"
    /\ Apply([Same EXCEPT !.bwd = Called(cfg, -1), !.op = "backward.call"])
    /\ UNCHANGED << status, process, threw, attached, gestureVars, setupVars >>

BackwardDrive ==
    /\ bwd.drive
    /\ -bwd.step < MaxStep
    /\ LET op == Driven(bwd, -1)
           r == DriveOutcome(op, "backward")
       IN  /\ InRange(r.first.position, MaxDrive)
           /\ Apply([r EXCEPT !.bwd = op])
    /\ UNCHANGED << status, process, threw, attached, gestureVars, setupVars >>

BackwardTimeout ==
    /\ bwd.timer
    /\ Apply([Same EXCEPT !.bwd = TimedOut(bwd), !.op = "backward.timeout"])
    /\ UNCHANGED << status, process, threw, attached, gestureVars, setupVars >>

(***************************************************************************)
(* magnetize(element, magnetism)                                           *)
(***************************************************************************)
\* the symbols of this.#magnetism; any other value is written "none"
Zones == {"beginning", "center", "end"}

\* the centre of the target from the centre of the shell along the axis the
\* strip moves on, on strips whose sizes are even
AxisOffset(element) ==
    ((2 * RectStart(order, margin, IndexOf(order, element)) + size[element])
        - (2 * ShellEdge + width)) \div 2

\* target.x + target.width / 2 - (shell.x + shell.width / 2): x and width
\* are on the axis of the strip when it is horizontal; in a vertical strip
\* they are the other axis, where every item starts at the edge of the shell
CenterOffset(element) ==
    IF cfg.vertical
    THEN (across.item[element] - across.shell) \div 2
    ELSE AxisOffset(element)

\* -Math.abs(this.magnet) || -Math.abs(this.step) || 0, signed by the side
MagnetStep(c, sign) ==
    LET abs(n) == IF n < 0 THEN -n ELSE n
    IN  Or(Num(sign * abs(c.magnet)), Or(Num(sign * abs(c.step)), Num(0))).v

\* the promise of magnetize(element, magnetism) as the call leaves it;
\* offset is what the switch leaves in `let offset`
Magnetized(c, element, zone) ==
    IF element \notin Items \/ zone \notin Zones
    THEN [NoMagnet EXCEPT !.state = "pending", !.zone = zone]
    ELSE LET offset == IF zone = "center"
                       THEN Num(CenterOffset(element))
                       ELSE Undefined
         IN  IF IsNum(offset) /\ offset.v # 0
             THEN [state |-> "pending", zone |-> zone, target |-> element,
                   step |-> MagnetStep(c, IF offset.v > 0 THEN -1 ELSE 1),
                   offset |-> offset.v, drive |-> TRUE, timer |-> TRUE]
             ELSE [NoMagnet EXCEPT !.state = "resolved", !.zone = zone,
                                   !.target = IF zone = "center"
                                              THEN element ELSE "none"]

\* the "magnetized" notification
MagnetizedEvent(ev, zone) ==
    IF ev["magnetized"]
    THEN << Ev("magnetized", zone, Undefined, Undefined, Undefined) >>
    ELSE << >>

\* magnetize(element, magnetism) called by the page; element is a child of
\* the shell or no HTMLElement
Magnetize(element, zone) ==
    /\ mag.state = "idle"
    /\ LET m == Magnetized(cfg, element, zone)
       IN  Apply([Same EXCEPT !.mag = m,
                              !.emitted = IF m.state = "resolved"
                                          THEN MagnetizedEvent(events, zone)
                                          ELSE << >>,
                              !.op = "magnetize.call"])
    /\ UNCHANGED << status, process, threw, attached, gestureVars, setupVars >>

\* --step / ++step, then the brake: step = -offset
Braked(m) ==
    LET sign == IF m.offset > 0 THEN -1 ELSE 1
        step == m.step + sign
        brake == m.offset + step
    IN  IF sign * brake >= 0 THEN -m.offset ELSE step

\* one callback of the interval of magnetize()
MagnetOutcome(m) ==
    LET step == Braked(m)
        r == Move(first, margin, order, events, cfg, Num(step))
        offset == m.offset + Or(r.ret, Num(0)).v
        done == offset = 0
    IN  [Same EXCEPT !.first = r.first, !.margin = r.margin,
                     !.mag = [m EXCEPT !.step = step, !.offset = offset,
                                       !.drive = ~done,
                                       !.timer = IF done THEN FALSE ELSE @,
                                       !.state = IF done
                                                 THEN Settle(@, "resolved")
                                                 ELSE @],
                     !.emitted = r.ev \o (IF done
                                          THEN MagnetizedEvent(events, m.zone)
                                          ELSE << >>),
                     !.pcall = [n |-> 1, caller |-> "magnetize", ret |-> r.ret],
                     !.dragRef = NoRef,
                     !.op = "magnetize"]

MagnetDrive ==
    /\ mag.drive
    /\ LET r == MagnetOutcome(mag)
       IN  /\ InRange(r.first.position, MaxMagnet)
           /\ Apply(r)
    /\ UNCHANGED << status, process, threw, attached, gestureVars, setupVars >>

\* the callback of the timeout of magnetize(): clearTimeout(magnet); reject()
MagnetTimeout ==
    /\ mag.timer
    /\ Apply([Same EXCEPT !.mag = TimedOut(mag), !.op = "magnetize.timeout"])
    /\ UNCHANGED << status, process, threw, attached, gestureVars, setupVars >>

(***************************************************************************)
(* Specifications.                                                         *)
(***************************************************************************)
\* the strip of three items with one gap, and the one whose last item has
\* no trailing margin
\* a strip of items 20 wide and 6 apart in a shell 50 wide: the centres of
\* the items are 15 before and 11 and 37 after the centre of the shell
Centred ==
    { [order |-> <<"a", "b", "c">>,
       size |-> [i \in {"a", "b", "c"} |-> 20],
       gap |-> [i \in {"a", "b", "c"} |-> 6],
       width |-> 50] }

\* the strip of the scenario: 5 items 100 wide, 10 apart
Scenario ==
    { [order |-> <<"a", "b", "c", "d", "e">>,
       size |-> [i \in {"a", "b", "c", "d", "e"} |-> 100],
       gap |-> [i \in {"a", "b", "c", "d", "e"} |-> 10],
       width |-> 300] }

Uniform == {l \in Layouts : Len(l.order) = 3 /\ \A i \in DOMAIN l.gap : l.gap[i] = 1}

Mixed == {l \in Layouts : Len(l.order) = 3 /\ \E i \in DOMAIN l.gap : l.gap[i] = 0}

Empty == {l \in Layouts : Len(l.order) = 0}

\* the settings as constructed, with the wheel on, a wheel delta the bounds
\* allow and the given stickiness and step
Setting(sticky, step) ==
    [alive |-> TRUE, hover |-> TRUE, wheel |-> TRUE, movable |-> TRUE,
     sticky |-> sticky, transfer |-> TRUE, step |-> step, delta |-> Num(2),
     magnetic |-> "null", magnet |-> 1, observe |-> FALSE, vertical |-> FALSE]

\* the registry as constructed, with the notifications of forward() and
\* backward() requested
DriveEvents ==
    [n \in EventNames |->
        n \in {"transfer.beginning", "transfer.end", "moved.forward", "moved.backward"}]

\* the engine, the hover and wheel handlers and the page calling position()
Next ==
    \/ Start
    \/ Tick
    \/ HoverEnter
    \/ HoverLeave
    \/ \E d \in WheelDeltas : Wheel(d)
    \/ \E v \in Values : CallPosition(v)

Spec == Init /\ [][Next]_vars

\* the engine and one user dragging the strip
NextDrag ==
    \/ Start
    \/ Tick
    \/ HoverEnter
    \/ HoverLeave
    \/ \E x \in Coords : GestureStart(x)
    \/ \E type \in {"mousemove", "touchmove"}, c \in Coords : DragMove(type, c)
    \/ GestureEnd

InitDrag ==
    InitOn(Uniform \cup Mixed, {Setting(s, -1) : s \in BOOLEAN}, {DefaultEvents},
           {"drag"})

SpecDrag == InitDrag /\ [][NextDrag]_vars

\* the engine under forward() and backward()
NextDrive ==
    \/ Start
    \/ Tick
    \/ Forward
    \/ ForwardDrive
    \/ ForwardTimeout
    \/ Backward
    \/ BackwardDrive
    \/ BackwardTimeout

InitDrive ==
    InitOn(Uniform, {Setting(FALSE, s) : s \in {1, -1}}, {DriveEvents}, {})

SpecDrive == InitDrive /\ [][NextDrive]_vars

\* the engine, hover and wheel, and a forward() running
NextFreeze ==
    \/ Start
    \/ Tick
    \/ HoverEnter
    \/ HoverLeave
    \/ \E d \in WheelDeltas : Wheel(d)
    \/ Forward
    \/ ForwardDrive
    \/ ForwardTimeout

InitFreeze ==
    InitOn(Uniform \cup Mixed, {Setting(FALSE, s) : s \in {1, -1}}, {DefaultEvents},
           {})

SpecFreeze == InitFreeze /\ [][NextFreeze]_vars

\* every caller of position() on a shell with no child
NextEmpty ==
    \/ Next
    \/ NextDrag
    \/ Forward
    \/ ForwardDrive
    \/ ForwardTimeout

InitEmpty ==
    InitOn(Empty, {Setting(s, 1) : s \in BOOLEAN}, {DefaultEvents, AllEvents},
           {"calls"})

SpecEmpty == InitEmpty /\ [][NextEmpty]_vars

\* the engine of Next with the registry as constructed, with every entry
\* switched off, and with the "move" entry switched on
InitQuiet ==
    InitOn(Uniform \cup Mixed, {Setting(FALSE, s) : s \in {1, -1}},
           {DefaultEvents, QuietEvents, MoveEvents}, {})

SpecQuiet == InitQuiet /\ [][Next]_vars

\* magnetize() called once, on an engine that may be started and stopped and
\* does not move the strip itself
NextMagnet ==
    \/ Start
    \/ Stop
    \/ Tick
    \/ \E element \in Items \cup {"null"}, zone \in Zones \cup {"none"} :
            Magnetize(element, zone)
    \/ MagnetDrive
    \/ MagnetTimeout

InitMagnet ==
    InitOn(Centred,
           {[Setting(FALSE, 1) EXCEPT !.alive = FALSE, !.magnet = m] : m \in {1, 2}},
           {DefaultEvents, AllEvents}, {})

SpecMagnet == InitMagnet /\ [][NextMagnet]_vars

\* the timers of magnetize() fire while they are set
SpecMagnetFair ==
    SpecMagnet /\ WF_vars(MagnetDrive) /\ WF_vars(MagnetTimeout)

\* magnetize() called once on a started engine that moves the strip itself
\* and hears the wheel
NextMagnetLive ==
    \/ Start
    \/ Tick
    \/ \E d \in WheelDeltas : Wheel(d)
    \/ \E element \in Items, zone \in Zones : Magnetize(element, zone)
    \/ MagnetDrive
    \/ MagnetTimeout

InitMagnetLive ==
    InitOn(Centred, {Setting(FALSE, s) : s \in {1, -1}}, {DefaultEvents}, {})

SpecMagnetLive == InitMagnetLive /\ [][NextMagnetLive]_vars

\* magnetize() called once on a horizontal or a vertical strip
NextColumn ==
    \/ Start
    \/ Tick
    \/ \E element \in Items, zone \in Zones : Magnetize(element, zone)
    \/ MagnetDrive
    \/ MagnetTimeout

\* the strip of Centred with items 20 across in a shell 30 across
InitColumn ==
    InitOn({c @@ [across |-> [shell |-> 30,
                              item |-> [i \in DOMAIN c.size |-> 20]]] :
                c \in Centred},
           {[Setting(FALSE, 1) EXCEPT !.alive = FALSE, !.vertical = v] :
                v \in BOOLEAN},
           {DefaultEvents}, {})

SpecColumn == InitColumn /\ [][NextColumn]_vars

\* the engine left alone on the strip of the scenario, its ticks counted
NextAlone ==
    \/ Start
    \/ Tick

InitAlone ==
    InitOn(Scenario, {Setting(FALSE, s) : s \in {1, -1}}, {DefaultEvents}, {"tally"})

SpecAlone == InitAlone /\ [][NextAlone]_vars

\* the attributes of the shell applied by configure(), before and after
\* start()
NextConfigure ==
    \/ Start
    \/ Stop
    \/ \E name \in OptionNames, value \in AttributeValues : Configure(name, value)

InitConfigure ==
    InitOn(Uniform, {Setting(FALSE, 1)}, {DefaultEvents, AllEvents}, {})

SpecConfigure == InitConfigure /\ [][NextConfigure]_vars

\* the life of the engine: start(), stop(), restart(), the attribute observer
\* and the gestures of a user who does not move the pointer; the strip stands
\* still (alive is false), so every buffer of start() holds 0
NextLife ==
    \/ Start
    \/ Stop
    \/ Restart
    \/ Tick
    \/ Mutation
    \/ HoverEnter
    \/ HoverLeave
    \/ \E x \in Coords : GestureStart(x)
    \/ GestureEnd

InitLife ==
    InitOn(Uniform,
           {[Setting(FALSE, 1) EXCEPT !.alive = FALSE, !.observe = o] : o \in BOOLEAN},
           {DefaultEvents, AllEvents}, {})

SpecLife == InitLife /\ [][NextLife]_vars

\* the pointer over a started strip with the drag enabled or disabled
NextHover ==
    \/ Start
    \/ Stop
    \/ Tick
    \/ HoverEnter
    \/ MouseLeave
    \/ \E x \in Coords : GestureStart(x)
    \/ GestureEnd

InitHover ==
    InitOn(Uniform,
           {[Setting(FALSE, s) EXCEPT !.movable = m] :
                m \in BOOLEAN, s \in {1, -1}},
           {DefaultEvents, AllEvents}, {})

SpecHover == InitHover /\ [][NextHover]_vars

\* the wheel over a strip that is started, stopped and started again
NextWheel ==
    \/ Start
    \/ Stop
    \/ Tick
    \/ HoverEnter
    \/ HoverLeave
    \/ \E d \in WheelDeltas : Wheel(d)

InitWheel ==
    InitOn(Uniform, {Setting(FALSE, s) : s \in {1, -1}}, {DefaultEvents}, {})

SpecWheel == InitWheel /\ [][NextWheel]_vars

(***************************************************************************)
(* The properties of the specification.                                    *)
(***************************************************************************)
\* the leading coordinate of the lead item
LeadStart == RectStart(order, margin, 1)

\* the end of the trailing gap of the lead item
LeadEnd == LeadStart + size[order[1]] + gap[order[1]]

\* the last handler was a tick that recycled an item
Recycled == lastOp \in {"tick.end", "tick.beginning"}

\* C1: on a strip of at least two items with transfer enabled, in the state
\* right after a recycle to either end the new lead item starts at or before
\* the leading edge of the shell and its trailing gap ends at or after it.
GapFreeLoop ==
    (Recycled /\ Len(order) >= 2 /\ TransferAllowed(cfg))
        => (LeadStart <= ShellEdge /\ LeadEnd >= ShellEdge)

\* the callers of position() that are a gesture or the wheel
UserCallers == {"drag", "wheel"}

\* the callers of position() that are a drive of forward() or backward()
DriveCallers == {"forward", "backward"}

DragContinuity ==
    [][(/\ dragRef.on
        /\ dragRef.recycled # {}
        /\ lastOp' = "drag"
        /\ dragRef'.c = dragRef.c
        /\ \A i \in Items : gap[i] # 0
        /\ \A k \in 1..Len(closures) : IsNum(closures[k].initial))
            => \A i \in Items \ dragRef.recycled :
                    dragRef'.screen[i] = dragRef.screen[i]]_vars

\* C5: right after a handler whose position() calls found the lead item, the
\* cache holds the lead item, and the margin of the lead item equals the
\* stored position, the value the last call was given.
PositionInvariant ==
    (pcall.n > 0 /\ Len(order) > 0)
        => /\ first.element = order[1]
           /\ margin[order[1]] = first.position

\* size plus trailing gap of the first k items of the strip
RECURSIVE Extent(_, _)
Extent(ord, k) ==
    IF k = 0 THEN 0 ELSE Extent(ord, k - 1) + size[ord[k]] + gap[ord[k]]

\* what the recycles to the beginning of a full cycle carry: the size of
\* every item plus its trailing gap, or the gap of the item after it (the
\* lead when it was recycled) where it has none
RECURSIVE BeginningExtent(_, _)
BeginningExtent(ord, k) ==
    IF k = 0
    THEN 0
    ELSE BeginningExtent(ord, k - 1) + size[ord[k]]
         + LastOffset(ord[k], gap[ord[(k % Len(ord)) + 1]])

\* every item of the strip was recycled exactly once since construction
FullCycle ==
    /\ Items # {}
    /\ ~cycle.twice
    /\ cycle.ends \cup cycle.begs = Items

\* C4 (as stated): over a full cycle, every item recycled exactly once, the
\* signed offsets of the transfer notifications sum to zero.
RecycleConservation == FullCycle => cycle.sum = 0

\* C4 (amended): a full cycle recycles every item to the same end, and the
\* signed offsets of its transfer notifications sum to minus the length of
\* the strip (sizes plus gaps) when the items went to the end, and to the
\* sizes plus the gaps the recycles to the beginning used when they went to
\* the beginning; the sum is never zero.
RecycleDisplacement ==
    FullCycle =>
        /\ cycle.ends = {} \/ cycle.begs = {}
        /\ cycle.ends = Items => cycle.sum = -Extent(order, Len(order))
        /\ cycle.begs = Items => cycle.sum = BeginningExtent(order, Len(order))
        /\ cycle.sum # 0

\* C4: a full cycle to the end on a strip with a gap-less item
FullCycleToEnd ==
    /\ FullCycle
    /\ cycle.ends = Items
    /\ \E i \in Items : gap[i] = 0 /\ size[i] > 0

\* the step from one position() call to the next one, of the page
NextCall == pcall.n = 1 /\ pcall'.n = 1 /\ lastOp' = "position"

\* the "position" notifications of the last handler
PositionEvents == SelectSeq(emitted, LAMBDA e : e.name = "position")

\* C6: position(v) called right after a position(v) that found the lead item
\* returns 0, leaves the stored position and the margin of the lead item at
\* v and, when the notification is enabled, emits it with to = v.
Idempotent ==
    [][(NextCall /\ IsNum(first.position) /\ IsElement(first.element)
        /\ first'.position = first.position)
            => /\ pcall'.ret = Num(0)
               /\ margin'[order'[1]] = first.position
               /\ events["position"] =>
                    (Len(PositionEvents') = 1 /\ PositionEvents'[1].to = first.position)]_vars

\* C6: the page called position(v), v not 0, on a cache that held v already,
\* with the notification enabled
RepeatedCall ==
    /\ lastOp = "position"
    /\ pcall.ret = Num(0)
    /\ IsNum(first.position) /\ first.position.v # 0
    /\ events["position"]
    /\ Len(PositionEvents) = 1

\* C7: a position(v) call on a strip with a lead item returns v minus the
\* margin the lead item had before the call, and the notification, when
\* enabled, carries from = that margin and to = v.
DeltaFromPreviousMargin ==
    [][(pcall'.n = 1 /\ Len(order) > 0 /\ IsNum(first'.position))
            => /\ pcall'.ret = Minus(first'.position, Num(MarginOf(margin, order[1])))
               /\ events["position"] =>
                    /\ Len(PositionEvents') = 1
                    /\ PositionEvents'[1].from = Num(MarginOf(margin, order[1]))
                    /\ PositionEvents'[1].to = first'.position]_vars

\* C8: on a shell with no child a position() call, of any caller, returns
\* null, raises nothing, emits no "position" notification (nothing at all
\* when the page calls it) and leaves the stored position as it was.
NoLeadNoWrite ==
    [][(Len(order) = 0 /\ pcall'.n > 0)
            => /\ pcall'.ret = Null
               /\ threw' = threw
               /\ PositionEvents' = << >>
               /\ lastOp' = "position" => emitted' = << >>
               /\ first'.position = first.position
               /\ margin' = margin]_vars

\* C8: the drag handler called position() on a shell with no child
NoLeadCall ==
    /\ Len(order) = 0
    /\ pcall.n > 0
    /\ pcall.caller = "drag"
    /\ pcall.ret = Null

\* the calls of forward() and backward()
Drives == {fwd, bwd}

\* C9: once the timeout of forward() or backward() rejected the call, its
\* drive interval is cleared and its recycle listener is detached, so no
\* "moved.forward" / "moved.backward" is emitted for it.
TimeoutCleanup ==
    /\ \A op \in Drives :
            op.state = "rejected" => (~op.drive /\ ~op.timer /\ ~op.listener)
    /\ fwd.state = "rejected" => \A k \in 1..Len(emitted) : emitted[k].name # "moved.forward"
    /\ bwd.state = "rejected" => \A k \in 1..Len(emitted) : emitted[k].name # "moved.backward"

\* the last handler emitted the notification
Emitted(name) == \E k \in 1..Len(emitted) : emitted[k].name = name

\* C10: forward() resolves only in a tick that emits "transfer.beginning"
\* after its step grew past 10, backward() only in one that emits
\* "transfer.end" after its step fell below -10; every drive tick moves the
\* step by 1; the timeout rejects a pending call; a settled call stays as it
\* settled; a resolved call has no drive interval, no timeout and no
\* listener left.
DriveSettles ==
    [][/\ (fwd.state = "pending" /\ fwd'.state = "resolved")
            => (lastOp' = "tick.beginning" /\ Emitted("transfer.beginning")'
                /\ fwd.step > StepThreshold)
       /\ (bwd.state = "pending" /\ bwd'.state = "resolved")
            => (lastOp' = "tick.end" /\ Emitted("transfer.end")'
                /\ -bwd.step > StepThreshold)
       /\ lastOp' = "forward" => fwd'.step = fwd.step + 1
       /\ lastOp' = "backward" => bwd'.step = bwd.step - 1
       /\ (lastOp' = "forward.timeout" /\ fwd.state = "pending") => fwd'.state = "rejected"
       /\ (lastOp' = "backward.timeout" /\ bwd.state = "pending") => bwd'.state = "rejected"
       /\ fwd.state \in {"resolved", "rejected"} => fwd'.state = fwd.state
       /\ bwd.state \in {"resolved", "rejected"} => bwd'.state = bwd.state
       /\ \A op \in Drives' :
            op.state = "resolved" => (~op.drive /\ ~op.timer /\ ~op.listener)]_vars

\* C10: forward() and backward() both resolved, one of them after eleven
\* drive ticks
BothResolved ==
    /\ fwd.state = "resolved"
    /\ bwd.state = "resolved"
    /\ fwd.step = StepThreshold + 1 \/ -bwd.step = StepThreshold + 1

\* C14: an engine built on a shell with fewer than 2 children never gets the
\* ready status, and start() gives it no tick timer and no started status, and
\* no tick of it raises an error.
StaysInactive ==
    Len(order) < 2 => /\ status \notin {"ready", "started"}
                      /\ ~process
                      /\ ~threw

\* C17: while the engine is stopped it has no tick timer and no attribute
\* observer: no tick runs and no attribute mutation is observed.
StoppedClearsAll ==
    status = "stopped" => /\ ~process
                          /\ ~observer
                          /\ lastOp \notin {"tick.idle", "tick.move", "observer.throw"}

\* C18: after a gesture-end and after a stop() no drag closure and no buffer
\* listener of a gesture is attached.
GestureListenersDetached ==
    lastOp \in {"gesture.end", "stop"} => (closures = << >> /\ ~accOn)

\* the children of the shell as the constructor found them
InitialOrder == (CHOOSE l \in Layouts : l.size = size /\ l.gap = gap).order

\* the sequence s starting k places later
Rotate(s, k) == [i \in 1..Len(s) |-> s[((i + k - 1) % Len(s)) + 1]]

\* the cyclic rotations of s
Rotations(s) == IF s = << >> THEN {s} ELSE {Rotate(s, k) : k \in 0..(Len(s) - 1)}

\* C19: the strip always holds the initial items, each once, in a cyclic
\* rotation of the initial order; a recycle to the end rotates the order by
\* one, a recycle to the beginning rotates it back by one, and no other
\* handler changes it.
ItemsOnlyRotate ==
    /\ [](order \in Rotations(InitialOrder))
    /\ [][IF lastOp' = "tick.end"
          THEN order' = Rotate(order, 1)
          ELSE IF lastOp' = "tick.beginning"
          THEN order' = Rotate(order, Len(order) - 1)
          ELSE order' = order]_vars

\* C19: a recycle to the end left a strip of three items one place on
RotatedOnce ==
    /\ lastOp = "tick.end"
    /\ Len(order) = 3
    /\ order = Rotate(InitialOrder, 1)
    /\ order # InitialOrder

\* the handler was the tick
TickOps == {"tick.end", "tick.beginning", "tick.move", "tick.idle", "tick.blocked"}

\* the "transfer.end" notifications of the last handler
TransferEndEvents == SelectSeq(emitted, LAMBDA e : e.name = "transfer.end")

\* C20: a tick that finds the end of the lead item's gap before the leading
\* edge of the shell, with transfer enabled, moves the lead item to the tail,
\* clears its margin and emits exactly one "transfer.end" carrying the item
\* and the offset -(size + gap).
ForwardExitRecycle ==
    [][(lastOp' \in TickOps /\ Len(order) > 0 /\ LeadEnd < ShellEdge
        /\ TransferAllowed(cfg))
            => LET lead == order[1]
               IN  /\ order' = Tail(order) \o << lead >>
                   /\ margin'[lead] = Null
                   /\ Len(TransferEndEvents') = 1
                   /\ TransferEndEvents'[1].element = lead
                   /\ TransferEndEvents'[1].offset = Num(-(size[lead] + gap[lead]))]_vars

\* the handler was configure() on an option, with the attribute present and
\* not the name of a zone given to the magnetic option
OptionConfigured ==
    /\ lastOp' = "configure"
    /\ conf'.name \in OptionNames \ Ignored
    /\ conf'.value.k = "str"
    /\ ~(conf'.name = "magnetic" /\ conf'.value.s \in Magnetism)

\* C15: configure stores true for true/on/yes, false for false/off/no, the
\* number for every string that parses as a number ("5" gives 5, "0" gives
\* 0) and the unchanged string otherwise; it always stores a value.
CoercionTable ==
    [][OptionConfigured
        => LET chars == conf'.value.s
           IN  /\ conf'.wrote
               /\ chars \in Yes => conf'.stored = Bool(TRUE)
               /\ chars \in No => conf'.stored = Bool(FALSE)
               /\ (chars \notin Yes \cup No /\ ParseFloat(chars) # NaN)
                    => conf'.stored = ParseFloat(chars)
               /\ (chars \notin Yes \cup No /\ ParseFloat(chars) = NaN)
                    => conf'.stored = conf'.value]_vars

\* C16: configure on the option name "events" writes no field, leaves the
\* registry and every other part of the engine as it was and emits no
\* "configured" notification, whatever the attribute holds.
RegistryExcluded ==
    [][(lastOp' = "configure" /\ conf'.name = "events")
        => /\ ~conf'.wrote
           /\ conf'.stored = Undefined
           /\ emitted' = << >>
           /\ UNCHANGED << order, size, gap, width, margin, first, status, process,
                           threw, freezed, moving, cfg, events, attached, closures,
                           current, nextId, accOn, acc, fwd, bwd, mag, observer,
                           generation, tally >>]_vars

\* C16: configure was called on "events" with a string in the attribute,
\* with the "configured" notification requested
RegistryConfigured ==
    /\ lastOp = "configure"
    /\ conf.name = "events"
    /\ conf.value = Str(<<"o", "f", "f">>)
    /\ events["configured"]

\* no part of the shell is left uncovered: the strip starts at or before the
\* leading edge and ends at or after the trailing one
NoGap ==
    /\ LeadStart <= ShellEdge
    /\ LeadStart + Extent(order, Len(order)) >= ShellEdge + width

MagnetSettled == mag.state \in {"resolved", "rejected"}

\* C11: every call of magnetize(), for every target and zone argument, is
\* eventually resolved or rejected; it never stays pending.
MagnetizeSettles == (mag.state = "pending") ~> MagnetSettled

\* a callback of the drive of a pending center-zone magnetize()
CenterDrive == lastOp' = "magnetize" /\ mag.state = "pending" /\ mag.zone = "center"

\* C12: every tick of the drive of a center-zone magnetize() grows the
\* magnitude of the step by 1 or clamps it to the offset left, moves the
\* tracked offset by that step towards 0 without passing it, and resolves
\* with the center zone when the offset reaches 0.
MagnetConverges ==
    [][CenterDrive
        => LET sign == IF mag.offset > 0 THEN -1 ELSE 1
           IN  /\ mag'.step = mag.step + sign \/ mag'.step = -mag.offset
               /\ mag'.offset = mag.offset + mag'.step
               /\ sign * mag'.offset <= 0
               /\ sign * mag'.offset > sign * mag.offset
               /\ mag'.offset = 0 => (mag'.state = "resolved" /\ mag'.zone = "center")]_vars

\* the "transfer.beginning" notifications of the last handler
TransferBeginningEvents ==
    SelectSeq(emitted, LAMBDA e : e.name = "transfer.beginning")

\* C21: a tick that finds the lead item past the leading edge of the shell
\* (and not before it), with transfer enabled, makes the tail item the lead
\* with margin -(size + gap), its gap falling back to the former lead's and
\* then to 0, clears the margin of the former lead, now second, and emits
\* exactly one "transfer.beginning" carrying the item and +(size + gap).
BackwardExitRecycle ==
    [][(lastOp' \in TickOps /\ Len(order) > 1 /\ ~(LeadEnd < ShellEdge)
        /\ LeadStart > ShellEdge /\ TransferAllowed(cfg))
            => LET lead == order[1]
                   last == order[Len(order)]
                   g == IF gap[last] # 0 THEN gap[last] ELSE gap[lead]
               IN  /\ order' = << last >> \o SubSeq(order, 1, Len(order) - 1)
                   /\ margin'[last] = Num(-(size[last] + g))
                   /\ margin'[lead] = Null
                   /\ Len(TransferBeginningEvents') = 1
                   /\ TransferBeginningEvents'[1].element = last
                   /\ TransferBeginningEvents'[1].offset = Num(size[last] + g)]_vars

\* a tick on which neither exit test fires
SteadyTick ==
    /\ lastOp' \in TickOps
    /\ Len(order) > 0
    /\ ~(LeadEnd < ShellEdge)
    /\ ~(LeadStart > ShellEdge)

\* C22: on a tick where neither exit test fires the margin of the lead item
\* and the stored position advance by exactly the step if and only if alive
\* is set and the engine is not frozen, and then, when the "move" entry of
\* the registry is on, a move notification carries the values before and
\* after; otherwise the tick leaves every margin as it was.
SteadyAdvance ==
    [][SteadyTick
        => LET lead == order[1]
               p == MarginOf(margin, lead)
           IN  IF cfg.alive = TRUE /\ ~freezed
               THEN /\ margin' = [margin EXCEPT ![lead] = Num(p + cfg.step)]
                    /\ first'.position = Num(p + cfg.step)
                    /\ events["move"] =>
                          \E k \in 1..Len(emitted') :
                              /\ emitted'[k].name \in {"move", "moving"}
                              /\ emitted'[k].from = Num(p)
                              /\ emitted'[k].to = Num(p + cfg.step)
               ELSE margin' = margin]_vars

\* a tick on which an exit test fires
ExitTick ==
    /\ lastOp' \in TickOps
    /\ Len(order) > 0
    /\ (LeadEnd < ShellEdge \/ LeadStart > ShellEdge)

\* C23: a tick does at most one of recycle to the end, recycle to the
\* beginning and passive advance; a tick on which an exit test fires never
\* advances the position, and with transfer disabled it changes neither the
\* order nor a margin nor the stored position and emits nothing.
OneBranchPerTick ==
    [][(lastOp' \in TickOps /\ Len(order) > 0)
        => /\ Len(TransferEndEvents') + Len(TransferBeginningEvents')
                + Len(PositionEvents') <= 1
           /\ lastOp' = "tick.move" => order' = order
           /\ Recycled' => pcall'.n = 0
           /\ ExitTick => /\ lastOp' # "tick.move"
                          /\ pcall'.n = 0
           /\ (ExitTick /\ cfg.transfer # TRUE)
                => /\ order' = order
                   /\ margin' = margin
                   /\ first'.position = first.position
                   /\ emitted' = << >>]_vars

\* C23: a tick found the lead item past the leading edge with transfer
\* disabled and did nothing
BlockedTick ==
    /\ lastOp = "tick.blocked"
    /\ cfg.transfer = FALSE
    /\ LeadStart > ShellEdge
    /\ Len(order) = 3

\* C24: a gesture-end released inside the shell (the listener is on the
\* shell) drops the freeze when hover-freeze is disabled and leaves the
\* engine frozen when hover-freeze is enabled.
GestureEndFreeze ==
    [][lastOp' = "gesture.end"
        => freezed' = (IF cfg.hover = FALSE THEN FALSE ELSE freezed)]_vars

\* C25: with sticky off, whether the drag is enabled or not, a pointer that
\* leaves the shell of a started strip leaves the strip unfrozen.
HoverLeaveReleases ==
    [][(lastOp' \in {"leave", "mouseleave"} /\ cfg.sticky = FALSE)
        => freezed' = FALSE]_vars

\* C26: while a move listener of a gesture is attached to the document, in
\* sticky mode as well, the strip is frozen.
DragOwnsFrozen ==
    closures # << >> => freezed = TRUE

\* C27: a move notification of a gesture on a started strip writes the
\* position pointerCoordinate - (gestureStartCoordinate +
\* accumulatedRecycleOffset - gestureStartLeadPosition), where the last term
\* is the margin of the lead item at gesture-start.
DragWritesFormula ==
    [][(lastOp' = "drag" /\ Len(closures) = 1)
        => first'.position
            = Num(dragRef'.c - (closures[1].x + acc - closures[1].lead))]_vars

\* C28: on a started strip a wheel notification leaves the lead item at the
\* margin it had plus the delta of the notification, frozen or not; on a
\* strip that is not started it changes nothing.
WheelAddsDelta ==
    [][/\ lastOp' = "wheel"
          => \E d \in WheelDeltas :
                margin'[order[1]]
                    = Plus(Num(MarginOf(margin, order[1])), WheelStep(cfg, d))
       /\ lastOp' = "wheel.stopped"
          => (margin' = margin /\ first' = first /\ order' = order)]_vars

\* C29: when a drive of magnetize() to the center zone resolves, the centre
\* of the target item is at the centre of the shell, whatever ticks and
\* wheel writes ran between its callbacks.
CenterResolved ==
    (lastOp = "magnetize" /\ mag.state = "resolved" /\ mag.zone = "center")
        => CenterOffset(mag.target) = 0

\* C30: the offset a center-zone magnetize() starts from is the centre of the
\* target less the centre of the shell along the axis the strip moves on,
\* horizontal or vertical.
CenterAlongAxis ==
    [][(lastOp' = "magnetize.call" /\ mag'.zone = "center"
            /\ mag'.target # "none")
        => (IF mag'.state = "pending" THEN mag'.offset ELSE 0)
            = AxisOffset(mag'.target)]_vars

\* C31: whatever value configure finds in the attribute of the magnetic
\* option, the field it writes holds null or one of the three zone symbols.
MagneticIsZone ==
    (conf.name = "magnetic" /\ conf.wrote)
        => (conf.stored = Null \/ conf.stored.k = "symbol")

\* C32: the moving flag is a boolean in every state, the initial one
\* included, and it is true only while a move listener of a gesture is
\* attached.
MovingIsBoolean ==
    /\ moving \in {"true", "false"}
    /\ moving = "true" => closures # << >>

\* C33: while the engine is stopped no handler and no timer changes the
\* margin of an item or the order of the strip.
StoppedStandsStill ==
    [][(status = "stopped" /\ status' = "stopped")
        => (margin' = margin /\ order' = order)]_vars

\* C34: after any sequence of start(), stop() and restart(), one
\* gesture-start attaches exactly one move listener to the document.
OneListenerPerGesture ==
    [][lastOp' = "gesture.start" => Len(closures') = Len(closures) + 1]_vars

\* C35: after a passive advance, a drag move or a drive callback of
\* forward(), backward() or magnetize(), whatever recycle ticks ran before
\* it, the stored position is a number.
StoredPositionIsNumber ==
    lastOp \in {"tick.move", "drag", "forward", "backward", "magnetize"}
        => IsNum(first.position)

\* C36: the accumulated recycle offset is 0 at every gesture-start, and a
\* hover-leave that leaves a move listener attached does not reset it.
AccumulatorPerGesture ==
    [][/\ lastOp' = "gesture.start" => acc' = 0
       /\ (lastOp' = "leave" /\ closures' # << >>) => acc' = acc]_vars

\* C37: at most one tick interval is set in every state: one while the
\* status is started and none while it is stopped.
OneTickTimer ==
    /\ timers <= 1
    /\ status = "started" => timers = 1
    /\ status = "stopped" => timers = 0

\* the engine started again after a stop
StartedAgain == lastOp \in {"start", "restart"} /\ generation = 2 /\ timers = 1

\* C38: in the state a tick leaves, no item but the lead one carries a
\* margin on the movement axis, and a handler that writes a margin writes the
\* one of the item that is first in the strip.
OnlyLeadHasMargin ==
    [][/\ lastOp' \in TickOps
            => \A k \in 2..Len(order') : margin'[order'[k]] = Null
       /\ \A i \in Items :
            (margin'[i] # margin[i] /\ margin'[i] # Null) => i = order'[1]]_vars

\* a recycle to the beginning has left the new lead item with its margin
RecycledLeadMargin ==
    lastOp = "tick.beginning" /\ margin[order[1]] # Null

====
